---- MODULE Spec2Model ----
(***************************************************************************)
(* Model of the example programs of the axes repository:                   *)
(*   - the four stress-test generators under examples/stress_tests         *)
(*     (gen_axes.py, gen_just.py, gen_make.py, gen_task.py), and           *)
(*   - the Flask demo endpoint examples/python-web-api/app.py.             *)
(*                                                                         *)
(* A file is the sequence of the chunks written to it, one chunk per       *)
(* f.write call.  A chunk records what the written text defines (task      *)
(* names), what it refers to (dependencies, interpolations) and the shell  *)
(* command it carries.  Text is a sequence of tokens; numbers are kept as  *)
(* the digit strings the f-string conversions produce.                     *)
(***************************************************************************)
EXTENDS Integers, Sequences, FiniteSets, TLC

VARIABLES
    fs,        \* file system: path -> Absent or the chunks of the file
    origin,    \* history: how the present content of each path came about
    stdout,    \* lines printed by the last invocation
    raised,    \* exception that left the last invocation unhandled
    pc,        \* "import": called as a library; "start"/"exit": run as a script
    prog,      \* the script being run ("none" when used as a library)
    argv,      \* sys.argv[1:] of the script
    call,      \* the arguments the script calls its generator with
    exit,      \* exit status of the script (-1 until it ends)
    env,       \* value of API_GREETING in the web app's environment
    response   \* last response of the web app

vars == <<fs, origin, stdout, raised, pc, prog, argv, call, exit, env, response>>
genVars == <<fs, origin, stdout, raised, pc, prog, argv, call, exit>>
apiVars == <<env, response>>

(***************************************************************************)
(* Bounds of the model.                                                    *)
(***************************************************************************)
MaxCount == 2
MaxFailAt == 3
MaxArgCount == 2
BigCount == 10001

(***************************************************************************)
(* Text: tokens, digit strings and the two integer conversions in use.     *)
(***************************************************************************)
Tok(t, s, d) == [t |-> t, s |-> s, d |-> d]
Lit(s) == Tok("lit", s, <<>>)
Num(ds) == Tok("num", "", ds)
Name(stem, ds) == Tok("name", stem, ds)

RECURSIVE Digits(_)
Digits(i) == IF i < 10 THEN <<i>> ELSE Digits(i \div 10) \o <<i % 10>>

\* f"{i}" for i >= 0
FmtD(i) == Digits(i)

Zeros(k) == [j \in 1..k |-> 0]

PadWidth == 4

\* f"{i:04d}" for i >= 0: at least four digits, zero-filled on the left
\* (a conversion that would keep four digits only)
Fmt04d_mod(i) == Zeros(PadWidth - Len(Digits(i % 10000))) \o Digits(i % 10000)
Fmt04d(i) ==
    LET ds == Digits(i)
    IN  IF Len(ds) >= PadWidth THEN ds ELSE Zeros(PadWidth - Len(ds)) \o ds

\* int(text) of a digit string
RECURSIVE DigitsToInt(_)
DigitsToInt(ds) ==
    IF ds = <<>> THEN 0
    ELSE 10 * DigitsToInt(SubSeq(ds, 1, Len(ds) - 1)) + ds[Len(ds)]

Chunk(kind, defs, refs, cmd) ==
    [kind |-> kind, defs |-> defs, refs |-> refs, cmd |-> cmd]

Blank == Chunk("blank", <<>>, <<>>, <<>>)

\* number of passes of "for i in range(1, n + 1)"
\* (range(1, n) would make one pass fewer)
Iterations_short(n) == IF n > 1 THEN n - 1 ELSE 0
Iterations(n) == IF n > 0 THEN n ELSE 0

(***************************************************************************)
(* gen_axes.py                                                             *)
(***************************************************************************)
\* the [scripts] keys of BASE_HEADER and the <scripts::...> interpolations
BASE_HEADER ==
    Chunk("header",
          << Name("hello_", <<2>>), Name("test_rec", <<>>), Name("test_rec", <<2>>),
             Name("build", <<>>), Name("build_release", <<>>), Name("run", <<>>),
             Name("test", <<>>), Name("check", <<>>), Name("lint", <<>>),
             Name("fmt", <<>>), Name("fmt_fix", <<>>), Name("quality", <<>>),
             Name("_flamgraph_exec", <<>>), Name("clean", <<>>), Name("doc", <<>>) >>,
          << Name("test_rec", <<2>>), Name("test_rec", <<>>), Name("fmt", <<>>),
             Name("check", <<>>), Name("lint", <<>>), Name("test", <<>>) >>,
          <<>>)

\* the [scripts.*] tables of VARS_ENV and the scripts they interpolate
VARS_ENV ==
    Chunk("trailer",
          << Name("install", <<>>), Name("flamegraph", <<>>), Name("Hyperfine", <<>>) >>,
          << Name("build_release", <<>>), Name("_flamgraph_exec", <<>>) >>,
          <<>>)

\* script_{i:04d} = "echo Script numero {i:04d} ejecutado"
axes_line(i) ==
    Chunk("task", << Name("script_", Fmt04d(i)) >>, <<>>,
          << Lit("echo"), Lit("Script numero"), Num(Fmt04d(i)), Lit("ejecutado") >>)

\* the f.write calls of generar_axes_toml(n, ...), in order
axes_writes(n) ==
    << BASE_HEADER, Blank >> \o [i \in 1..Iterations(n) |-> axes_line(i)] \o << Blank, VARS_ENV >>

(***************************************************************************)
(* gen_just.py                                                             *)
(***************************************************************************)
just_header == Chunk("header", <<>>, <<>>, <<>>)

\* receta_{i:04d}:
just_name(i) == Chunk("task", << Name("receta_", Fmt04d(i)) >>, <<>>, <<>>)

\*     echo "Comando basura {i:04d}"
just_body(i) ==
    Chunk("body", <<>>, <<>>, << Lit("echo"), Lit("Comando basura"), Num(Fmt04d(i)) >>)

\* the two f.write calls of pass i of the loop
just_iteration(i) == << just_name(i), just_body(i) >>

\* the f.write calls of generar_justfile(n, ...), in order
just_writes(n) ==
    << just_header >> \o
    [j \in 1..(2 * Iterations(n)) |-> just_iteration(((j - 1) \div 2) + 1)[((j - 1) % 2) + 1]]

(***************************************************************************)
(* gen_make.py                                                             *)
(***************************************************************************)
\* .PHONY: default
make_phony_default == Chunk("phony", <<>>, << Name("default", <<>>) >>, <<>>)

\* default: receta_1
make_default == Chunk("default", << Name("default", <<>>) >>, << Name("receta_", <<1>>) >>, <<>>)

\* script_name = f"script_{i}"
make_script_name(i) == Name("script_", FmtD(i))

\* .PHONY: {script_name}
make_phony(i) == Chunk("phony", <<>>, << make_script_name(i) >>, <<>>)

\* {script_name}:
make_target(i) == Chunk("task", << make_script_name(i) >>, <<>>, <<>>)

\* \t@echo "Executing {script_name} ({i}/{n})"
\* (a recipe that would print the index in place of the count)
make_recipe_ii(i, n) ==
    Chunk("body", <<>>, <<>>,
          << Lit("@echo"), Lit("Executing"), make_script_name(i),
             Lit("("), Num(FmtD(i)), Lit("/"), Num(FmtD(i)), Lit(")") >>)
make_recipe(i, n) ==
    Chunk("body", <<>>, <<>>,
          << Lit("@echo"), Lit("Executing"), make_script_name(i),
             Lit("("), Num(FmtD(i)), Lit("/"), Num(FmtD(n)), Lit(")") >>)

\* the three f.write calls of pass i of the loop
make_iteration(i, n) == << make_phony(i), make_target(i), make_recipe(i, n) >>

\* the f.write calls of generate_makefile(n, ...), in order
makefile_writes(n) ==
    << make_phony_default, make_default >> \o
    [j \in 1..(3 * Iterations(n)) |-> make_iteration(((j - 1) \div 3) + 1, n)[((j - 1) % 3) + 1]]

(***************************************************************************)
(* gen_task.py                                                             *)
(***************************************************************************)
\* version: '3'
task_version == Chunk("version", <<>>, <<>>, <<>>)

\* tasks:
task_tasks == Chunk("tasks", <<>>, <<>>, <<>>)

\*   default:
task_default == Chunk("default", << Name("default", <<>>) >>, <<>>, <<>>)

\*     deps: [script_1]
task_default_deps == Chunk("deps", <<>>, << Name("script_", <<1>>) >>, <<>>)

\* script_name = f"script_{i}"
task_script_name(i) == Name("script_", FmtD(i))

\*   {script_name}:
task_entry(i) == Chunk("task", << task_script_name(i) >>, <<>>, <<>>)

\*     cmds:
task_cmds == Chunk("cmds", <<>>, <<>>, <<>>)

\*       - echo "Executing {script_name} ({i}/{n})"
task_cmd(i, n) ==
    Chunk("body", <<>>, <<>>,
          << Lit("echo"), Lit("Executing"), task_script_name(i),
             Lit("("), Num(FmtD(i)), Lit("/"), Num(FmtD(n)), Lit(")") >>)

\* the three f.write calls of pass i of the loop
task_iteration(i, n) == << task_entry(i), task_cmds, task_cmd(i, n) >>

\* the f.write calls of generate_taskfile(n, ...), in order
taskfile_writes(n) ==
    << task_version, task_tasks, task_default, task_default_deps >> \o
    [j \in 1..(3 * Iterations(n)) |-> task_iteration(((j - 1) \div 3) + 1, n)[((j - 1) % 3) + 1]]

(***************************************************************************)
(* The file system and the outcome of the I/O of one generator call.       *)
(***************************************************************************)
Generators == {"gen_axes", "gen_just", "gen_make", "gen_task"}

\* the default output name of each generator
DefaultName(g) ==
    CASE g = "gen_axes" -> "axes.toml"
      [] g = "gen_just" -> "justfile"
      [] g = "gen_make" -> "makefile.mk"
      [] OTHER          -> "Taskfile.yml"

LibPaths == {"out_a", "out_b"}
ArgPaths == {"out_a"}
Paths == LibPaths \cup {DefaultName(g) : g \in Generators}

Absent == [exists |-> FALSE, data |-> <<>>]
File(data) == [exists |-> TRUE, data |-> data]

\* open(path, "w", encoding="utf-8") followed by the writes that succeeded:
\* the file is created or truncated, then holds what was written
\* (mode "a" would append; mode "r+" would keep the old tail)
WriteFile_append(old, written) == File(old.data \o written)
WriteFile_keep(old, written) ==
    File(written \o SubSeq(old.data, Len(written) + 1, Len(old.data)))
WriteFile(old, written) == File(written)

\* The I/O operations of a call are open, then the writes.  `good` is the
\* number of them that succeed before the operating system reports an error:
\* 0 = open fails, k = the k-th write fails, W + 1 = none fails.
Min(a, b) == IF a < b THEN a ELSE b
Outcomes(W) == (0..Min(W, MaxFailAt)) \cup {W + 1}

OpenError == "Permission denied"
WriteError == "No space left on device"
Cause(good) == IF good = 0 THEN OpenError ELSE WriteError

NoOrigin == [status |-> "none", gen |-> "", n |-> 0, over |-> ""]
Failed == [status |-> "failed", gen |-> "", n |-> 0, over |-> ""]
Made(gen, n, over) == [status |-> "ok", gen |-> gen, n |-> n, over |-> over]

\* what a completed run of gen with count n found at its path when it opened it
Over(o, old, writes, gen, n) ==
    CASE o.status = "none" -> "absent"
      [] o.status = "ok"   -> IF o.gen = gen /\ o.n = n THEN "rerun" ELSE "complete"
      [] OTHER -> IF Len(old.data) > Len(writes) THEN "partial_long" ELSE "partial"

\* the with-block of a generator: open, the writes, close
WithOpen(gen, n, path, writes, good) ==
    LET W == Len(writes)
    IN  IF good = 0
        THEN UNCHANGED <<fs, origin>>
        ELSE /\ fs' = [fs EXCEPT ![path] =
                         WriteFile(@, SubSeq(writes, 1, IF good > W THEN W ELSE good - 1))]
             /\ origin' = [origin EXCEPT ![path] =
                             IF good > W THEN Made(gen, n, Over(@, fs[path], writes, gen, n))
                             ELSE Failed]

ConfirmLine(gen, file, n) ==
    [kind |-> "confirm", gen |-> gen, file |-> file, n |-> n, cause |-> ""]
ErrorLine(gen, cause) ==
    [kind |-> "error", gen |-> gen, file |-> "", n |-> 0, cause |-> cause]

(***************************************************************************)
(* The counts the generators are run with.                                 *)
(***************************************************************************)
\* n of a call of a generator function from importing code
Counts == 0..MaxCount

\* gen_axes.py and gen_just.py as scripts: generar_axes_toml(100000),
\* generar_justfile(100000)
MainCount == 100000

\* gen_make.py and gen_task.py as scripts: the count when sys.argv has none
DefaultCount == 1000

\* the counts sys.argv[1] may state
ArgCounts == (-1)..MaxArgCount

\* the generators whose names carry {i:04d}
Padded == {"gen_axes", "gen_just"}

\* n of a call around the first index wider than four digits
BigCounts == (BigCount - 1)..BigCount
BulkCounts(g) == IF g \in Padded THEN Counts \cup BigCounts ELSE Counts

CountsOf(g) ==
    IF g \in Padded
    THEN BulkCounts(g) \cup {MainCount}
    ELSE BulkCounts(g) \cup ArgCounts \cup {DefaultCount}

Writes(g, n) ==
    CASE g = "gen_axes" -> axes_writes(n)
      [] g = "gen_just" -> just_writes(n)
      [] g = "gen_make" -> makefile_writes(n)
      [] OTHER          -> taskfile_writes(n)

\* the sequence of writes of each run in use, computed once
Output == [g \in Generators |-> [n \in CountsOf(g) |-> Writes(g, n)]]

(***************************************************************************)
(* The generator functions.                                                *)
(***************************************************************************)
\* gen_axes.py: no try/except, an OSError leaves the function
generar_axes_toml(n, archivo, good) ==
    LET writes == Output["gen_axes"][n]
    IN  /\ WithOpen("gen_axes", n, archivo, writes, good)
        /\ IF good > Len(writes)
           THEN stdout' = << ConfirmLine("gen_axes", archivo, n) >> /\ raised' = ""
           ELSE stdout' = <<>> /\ raised' = Cause(good)

\* gen_just.py: no try/except, an OSError leaves the function
generar_justfile(n, nombre_archivo, good) ==
    LET writes == Output["gen_just"][n]
    IN  /\ WithOpen("gen_just", n, nombre_archivo, writes, good)
        /\ IF good > Len(writes)
           THEN stdout' = << ConfirmLine("gen_just", nombre_archivo, n) >> /\ raised' = ""
           ELSE stdout' = <<>> /\ raised' = Cause(good)

\* gen_make.py: "except IOError as e" prints the error and returns
generate_makefile(n, file_name, good) ==
    LET writes == Output["gen_make"][n]
    IN  /\ WithOpen("gen_make", n, file_name, writes, good)
        /\ stdout' = IF good > Len(writes)
                     THEN << ConfirmLine("gen_make", file_name, n) >>
                     ELSE << ErrorLine("gen_make", Cause(good)) >>
        /\ raised' = ""

\* gen_task.py: "except IOError as e" prints the error and returns
generate_taskfile(n, file_name, good) ==
    LET writes == Output["gen_task"][n]
    IN  /\ WithOpen("gen_task", n, file_name, writes, good)
        /\ stdout' = IF good > Len(writes)
                     THEN << ConfirmLine("gen_task", file_name, n) >>
                     ELSE << ErrorLine("gen_task", Cause(good)) >>
        /\ raised' = ""

\* the outcomes of the I/O of a run of g with count n
OutcomesOf(g, n) == Outcomes(Len(Output[g][n]))

(***************************************************************************)
(* The generators called as functions, any number of times.                *)
(***************************************************************************)
Call_generar_axes_toml ==
    /\ pc = "import"
    /\ \E n \in Counts, p \in LibPaths :
         \E good \in OutcomesOf("gen_axes", n) : generar_axes_toml(n, p, good)
    /\ UNCHANGED <<pc, prog, argv, call, exit, apiVars>>

Call_generar_justfile ==
    /\ pc = "import"
    /\ \E n \in Counts, p \in LibPaths :
         \E good \in OutcomesOf("gen_just", n) : generar_justfile(n, p, good)
    /\ UNCHANGED <<pc, prog, argv, call, exit, apiVars>>

Call_generate_makefile ==
    /\ pc = "import"
    /\ \E n \in Counts, p \in LibPaths :
         \E good \in OutcomesOf("gen_make", n) : generate_makefile(n, p, good)
    /\ UNCHANGED <<pc, prog, argv, call, exit, apiVars>>

Call_generate_taskfile ==
    /\ pc = "import"
    /\ \E n \in Counts, p \in LibPaths :
         \E good \in OutcomesOf("gen_task", n) : generate_taskfile(n, p, good)
    /\ UNCHANGED <<pc, prog, argv, call, exit, apiVars>>

(***************************************************************************)
(* The generators run as scripts: one process, from start to exit.         *)
(***************************************************************************)
\* the text of an integer on the command line
IntText(c) == IF c < 0 THEN Tok("num", "-", FmtD(-c)) ELSE Tok("num", "", FmtD(c))

CountArgs == {IntText(c) : c \in ArgCounts} \cup {Lit("abc")}

Argvs ==
    {<<>>} \cup {<<c>> : c \in CountArgs}
           \cup {<<c, Lit(p)>> : c \in CountArgs, p \in ArgPaths}

\* int(text): a ValueError unless the text is that of an integer
IsIntText(tok) == tok.t = "num"
PyInt(tok) == IF tok.s = "-" THEN -DigitsToInt(tok.d) ELSE DigitsToInt(tok.d)

\* the interpreter's exit status: 1 after an unhandled exception, else 0
ExitStatus(exc) == IF exc = "" THEN 0 ELSE 1

NoCall == [n |-> 0, path |-> ""]
CallWith(n, path) == [n |-> n, path |-> path]

\* gen_axes.py __main__: generar_axes_toml(100000)
main_gen_axes ==
    /\ pc = "start"
    /\ prog = "gen_axes"
    /\ call' = CallWith(MainCount, DefaultName("gen_axes"))
    /\ pc' = "called"
    /\ UNCHANGED <<fs, origin, stdout, raised, prog, argv, exit, apiVars>>

\* gen_just.py __main__: generar_justfile(100000)
main_gen_just ==
    /\ pc = "start"
    /\ prog = "gen_just"
    /\ call' = CallWith(MainCount, DefaultName("gen_just"))
    /\ pc' = "called"
    /\ UNCHANGED <<fs, origin, stdout, raised, prog, argv, exit, apiVars>>

\* gen_make.py __main__: arg1, arg2, then generate_makefile(arg1, arg2);
\* int() of a text that is no integer ends the script with a ValueError
main_gen_make ==
    /\ pc = "start"
    /\ prog = "gen_make"
    /\ IF Len(argv) > 0 /\ ~IsIntText(argv[1])
       THEN /\ raised' = "ValueError"
            /\ pc' = "exit"
            /\ exit' = ExitStatus(raised')
            /\ UNCHANGED call
       ELSE /\ call' = CallWith(IF Len(argv) > 0 THEN PyInt(argv[1]) ELSE DefaultCount,
                                IF Len(argv) > 1 THEN argv[2].s ELSE DefaultName("gen_make"))
            /\ pc' = "called"
            /\ UNCHANGED <<raised, exit>>
    /\ UNCHANGED <<fs, origin, stdout, prog, argv, apiVars>>

\* gen_task.py __main__: arg1, arg2, then generate_taskfile(arg1, arg2)
main_gen_task ==
    /\ pc = "start"
    /\ prog = "gen_task"
    /\ IF Len(argv) > 0 /\ ~IsIntText(argv[1])
       THEN /\ raised' = "ValueError"
            /\ pc' = "exit"
            /\ exit' = ExitStatus(raised')
            /\ UNCHANGED call
       ELSE /\ call' = CallWith(IF Len(argv) > 0 THEN PyInt(argv[1]) ELSE DefaultCount,
                                IF Len(argv) > 1 THEN argv[2].s ELSE DefaultName("gen_task"))
            /\ pc' = "called"
            /\ UNCHANGED <<raised, exit>>
    /\ UNCHANGED <<fs, origin, stdout, prog, argv, apiVars>>

\* the call made by __main__ runs, and the script ends
Run_generar_axes_toml ==
    /\ pc = "called"
    /\ prog = "gen_axes"
    /\ \E good \in OutcomesOf("gen_axes", call.n) : generar_axes_toml(call.n, call.path, good)
    /\ pc' = "exit"
    /\ exit' = ExitStatus(raised')
    /\ UNCHANGED <<prog, argv, call, apiVars>>

Run_generar_justfile ==
    /\ pc = "called"
    /\ prog = "gen_just"
    /\ \E good \in OutcomesOf("gen_just", call.n) : generar_justfile(call.n, call.path, good)
    /\ pc' = "exit"
    /\ exit' = ExitStatus(raised')
    /\ UNCHANGED <<prog, argv, call, apiVars>>

Run_generate_makefile ==
    /\ pc = "called"
    /\ prog = "gen_make"
    /\ \E good \in OutcomesOf("gen_make", call.n) : generate_makefile(call.n, call.path, good)
    /\ pc' = "exit"
    /\ exit' = ExitStatus(raised')
    /\ UNCHANGED <<prog, argv, call, apiVars>>

Run_generate_taskfile ==
    /\ pc = "called"
    /\ prog = "gen_task"
    /\ \E good \in OutcomesOf("gen_task", call.n) : generate_taskfile(call.n, call.path, good)
    /\ pc' = "exit"
    /\ exit' = ExitStatus(raised')
    /\ UNCHANGED <<prog, argv, call, apiVars>>

(***************************************************************************)
(* The generators called as functions, the zero-padded ones also for more  *)
(* than 9999 records.                                                      *)
(***************************************************************************)
BigPaths == {"out_a"}

Bulk_generar_axes_toml ==
    /\ pc = "import"
    /\ \E n \in BulkCounts("gen_axes"), p \in BigPaths :
         \E good \in OutcomesOf("gen_axes", n) : generar_axes_toml(n, p, good)
    /\ UNCHANGED <<pc, prog, argv, call, exit, apiVars>>

Bulk_generar_justfile ==
    /\ pc = "import"
    /\ \E n \in BulkCounts("gen_just"), p \in BigPaths :
         \E good \in OutcomesOf("gen_just", n) : generar_justfile(n, p, good)
    /\ UNCHANGED <<pc, prog, argv, call, exit, apiVars>>

Bulk_generate_makefile ==
    /\ pc = "import"
    /\ \E n \in BulkCounts("gen_make"), p \in BigPaths :
         \E good \in OutcomesOf("gen_make", n) : generate_makefile(n, p, good)
    /\ UNCHANGED <<pc, prog, argv, call, exit, apiVars>>

Bulk_generate_taskfile ==
    /\ pc = "import"
    /\ \E n \in BulkCounts("gen_task"), p \in BigPaths :
         \E good \in OutcomesOf("gen_task", n) : generate_taskfile(n, p, good)
    /\ UNCHANGED <<pc, prog, argv, call, exit, apiVars>>

(***************************************************************************)
(* examples/python-web-api/app.py.  Text is a sequence of words.           *)
(***************************************************************************)
Unset == [set |-> FALSE, val |-> <<>>]
Set(v) == [set |-> TRUE, val |-> v]
NoResponse == [status |-> 0, body |-> <<>>]

DefaultGreeting == << "Hello,", "World", "from", "Flask!" >>

\* the greeting tests/test_app.py expects
ExpectedGreeting == << "Hello", "from", "the", "axes-powered", "API!" >>

\* values the environment may give API_GREETING
GreetingValues ==
    { <<>>, << "Hello" >>, << "Hello", "from" >>, << "Hello", "from", "the" >>,
      << "Hello", "from", "the", "axes-powered" >>,
      ExpectedGreeting, DefaultGreeting,
      << "Say:" >> \o ExpectedGreeting, ExpectedGreeting \o << "(v2)" >>,
      << "API!", "axes-powered" >>, << "<h1>" >> }

\* os.getenv(name, default)
\* (a lookup that would ignore the environment)
getenv_default(e, default) == default
getenv(e, default) == IF e.set THEN e.val ELSE default

\* the environment of the process is changed (launcher, test fixture)
setenv ==
    /\ \E v \in GreetingValues : env' = Set(v)
    /\ UNCHANGED <<response, genVars>>

unsetenv ==
    /\ env' = Unset
    /\ UNCHANGED <<response, genVars>>

\* GET /
hello_world ==
    /\ LET greeting == getenv(env, DefaultGreeting)
       IN  response' = [status |-> 200, body |-> << "<h1>" >> \o greeting \o << "</h1>" >>]
    /\ UNCHANGED <<env, genVars>>

(***************************************************************************)
(* Specifications.                                                         *)
(***************************************************************************)
InitFiles ==
    /\ fs = [p \in Paths |-> Absent]
    /\ origin = [p \in Paths |-> NoOrigin]
    /\ stdout = <<>>
    /\ raised = ""
    /\ call = NoCall
    /\ exit = -1

InitApi ==
    /\ env = Unset
    /\ response = NoResponse

Init ==
    /\ InitFiles
    /\ InitApi
    /\ pc = "import"
    /\ prog = "none"
    /\ argv = <<>>

Next ==
    \/ Call_generar_axes_toml
    \/ Call_generar_justfile
    \/ Call_generate_makefile
    \/ Call_generate_taskfile

\* the generator functions, called repeatedly by importing code
Spec == Init /\ [][Next]_vars

\* one run of one generator script, with any command line
InitCli ==
    /\ InitFiles
    /\ InitApi
    /\ pc = "start"
    /\ prog \in Generators
    /\ argv \in Argvs

NextCli ==
    \/ main_gen_axes
    \/ main_gen_just
    \/ main_gen_make
    \/ main_gen_task
    \/ Run_generar_axes_toml
    \/ Run_generar_justfile
    \/ Run_generate_makefile
    \/ Run_generate_taskfile

SpecCli == InitCli /\ [][NextCli]_vars

\* the generator functions, called for small counts and for more than 9999 records
NextBig ==
    \/ Bulk_generar_axes_toml
    \/ Bulk_generar_justfile
    \/ Bulk_generate_makefile
    \/ Bulk_generate_taskfile

SpecBig == Init /\ [][NextBig]_vars

\* the web app serving requests
InitWeb ==
    /\ InitFiles
    /\ InitApi
    /\ pc = "import"
    /\ prog = "none"
    /\ argv = <<>>

NextWeb ==
    \/ setenv
    \/ unsetenv
    \/ hello_world

SpecWeb == InitWeb /\ [][NextWeb]_vars

(***************************************************************************)
(* Reading a generated file back.                                          *)
(***************************************************************************)
Range(seq) == {seq[k] : k \in 1..Len(seq)}

\* sub occurs in seq as a contiguous run
Contains(seq, sub) ==
    \E k \in 0..(Len(seq) - Len(sub)) : SubSeq(seq, k + 1, k + Len(sub)) = sub

\* the per-index naming pattern of each format: script_<digits>,
\* receta_<digits>, with at least four digits in the zero-padded formats
Stem(g) == IF g = "gen_just" THEN "receta_" ELSE "script_"
MinDigits(g) == IF g \in Padded THEN PadWidth ELSE 1
Matches(g, name) ==
    name.t = "name" /\ name.s = Stem(g) /\ Len(name.d) >= MinDigits(g)

IsRecord(g, c) == \E k \in 1..Len(c.defs) : Matches(g, c.defs[k])
RecordName(g, c) == c.defs[CHOOSE k \in 1..Len(c.defs) : Matches(g, c.defs[k])]

\* the task records of a file, and their names, in file order
Records(g, data) == SelectSeq(data, LAMBDA c : IsRecord(g, c))
TaskNames(g, data) ==
    LET rs == Records(g, data) IN <<>> \o [k \in 1..Len(rs) |-> RecordName(g, rs[k])]

\* the commands of a file, in file order
Bodies(data) == SelectSeq(data, LAMBDA c : c.cmd # <<>>)

AllDefs(data) == UNION {Range(data[k].defs) : k \in 1..Len(data)}
AllRefs(data) == UNION {Range(data[k].refs) : k \in 1..Len(data)}

\* what the default task of a file depends on
DefaultDeps(data) ==
    UNION {Range(data[k].refs) : k \in {j \in 1..Len(data) : data[j].kind \in {"default", "deps"}}}

\* the paths whose present content a completed run left
Generated == {p \in Paths : origin[p].status = "ok"}

Confirmed == stdout # <<>> /\ stdout[1].kind = "confirm"

(***************************************************************************)
(* C1: a run that completes leaves exactly n task records in the file,     *)
(* for every generator and every n >= 0.                                   *)
(***************************************************************************)
C1_ExactlyCountRecords ==
    \A p \in Generated :
        origin[p].n >= 0 => Len(Records(origin[p].gen, fs[p].data)) = origin[p].n

C1_Witness ==
    \E p \in Generated :
        /\ origin[p].n >= 1
        /\ Len(Records(origin[p].gen, fs[p].data)) = origin[p].n

(***************************************************************************)
(* C2: in a generated file the task names are pairwise distinct, strictly  *)
(* increasing in their embedded index, and cover exactly 1..count; for the *)
(* plain-decimal and the zero-padded names, also above 9999.               *)
(***************************************************************************)
C2_NamesDistinctIncreasing ==
    \A p \in Generated :
        LET names == TaskNames(origin[p].gen, fs[p].data)
            idx == <<>> \o [k \in 1..Len(names) |-> DigitsToInt(names[k].d)]
        IN  /\ Cardinality(Range(names)) = Len(names)
            /\ \A k \in 1..(Len(names) - 1) : idx[k] < idx[k + 1]
            /\ Range(idx) = 1..origin[p].n

C2_Witness ==
    \E p \in Generated :
        LET names == TaskNames(origin[p].gen, fs[p].data)
        IN  /\ origin[p].gen \in {"gen_axes", "gen_just"}
            /\ Len(names) = BigCount
            /\ Len(names[9999].d) = PadWidth
            /\ Len(names[10000].d) > PadWidth

(***************************************************************************)
(* C3: running the same generator twice in a row with the same count and   *)
(* path leaves the file after the second run as it was after the first.    *)
(***************************************************************************)
C3_Idempotent ==
    [][\A p \in Paths :
          (/\ origin[p].status = "ok"
           /\ origin'[p].status = "ok"
           /\ origin'[p].gen = origin[p].gen
           /\ origin'[p].n = origin[p].n) => fs'[p] = fs[p]]_vars

C3_Witness ==
    \E p \in Generated : origin[p].over = "rerun" /\ origin[p].n >= 1

(***************************************************************************)
(* C4: in the makefile and taskfile formats the default task depends on    *)
(* exactly script_1, the first generated record, for every count >= 1.     *)
(***************************************************************************)
C4_DefaultDependsOnFirstRecord ==
    \A p \in Generated :
        (origin[p].gen \in {"gen_make", "gen_task"} /\ origin[p].n >= 1) =>
            LET names == TaskNames(origin[p].gen, fs[p].data)
            IN  /\ names[1] = Name("script_", <<1>>)
                /\ DefaultDeps(fs[p].data) = {names[1]}
                /\ DefaultDeps(fs[p].data) \subseteq AllDefs(fs[p].data)

(***************************************************************************)
(* C5: with count 0 the file holds only the fixed preamble, no task        *)
(* record, and refers to no task it does not define.                       *)
(***************************************************************************)
C5_ZeroCountWellFormed ==
    \A p \in Generated :
        origin[p].n = 0 =>
            /\ \A k \in 1..Len(fs[p].data) : fs[p].data[k].kind \notin {"task", "body"}
            /\ Len(Records(origin[p].gen, fs[p].data)) = 0
            /\ AllRefs(fs[p].data) \subseteq AllDefs(fs[p].data)

(***************************************************************************)
(* C6: when the output cannot be opened or written, the run prints an      *)
(* error with its cause, lets no exception escape, prints no confirmation  *)
(* and exits with a status other than that of a successful run.            *)
(***************************************************************************)
IOFailure == pc = "exit" /\ raised # "ValueError" /\ ~Confirmed

C6_FailureHandled ==
    IOFailure =>
        /\ stdout # <<>>
        /\ stdout[1].kind = "error"
        /\ stdout[1].cause \in {OpenError, WriteError}
        /\ raised = ""
        /\ exit # 0

(***************************************************************************)
(* C7: every generator script takes the count from its first argument      *)
(* (1000 when absent) and the path from its second (the format's default   *)
(* name when absent).                                                      *)
(***************************************************************************)
C7_ArgumentsAndDefaults ==
    pc = "called" =>
        /\ call.n = (IF Len(argv) > 0 THEN PyInt(argv[1]) ELSE 1000)
        /\ call.path = (IF Len(argv) > 1 THEN argv[2].s ELSE DefaultName(prog))

(***************************************************************************)
(* C8: GET / answers 200 with a body holding the greeting of API_GREETING  *)
(* as read at request time, or the default greeting when it is unset.      *)
(* As claimed, the greeting the test expects is in every response.         *)
(***************************************************************************)
Served == response.status # 0

IsEcho(cmd) == cmd # <<>> /\ cmd[1] \in {Lit("echo"), Lit("@echo")}

\* the numbers a command prints, in order
NumsOf(cmd) ==
    LET ns == SelectSeq(cmd, LAMBDA tok : tok.t = "num")
    IN  <<>> \o [k \in 1..Len(ns) |-> DigitsToInt(ns[k].d)]

\* the record of index i is followed by its command before the next record
RecordThenBody(g, data, i) ==
    \E a, b \in 1..Len(data) :
        /\ a <= b
        /\ IsRecord(g, data[a])
        /\ DigitsToInt(RecordName(g, data[a]).d) = i
        /\ data[b] = Bodies(data)[i]
        /\ \A c \in (a + 1)..b : ~IsRecord(g, data[c])

C9_BodyPrintsIndexAndCount ==
    \A p \in Generated :
        LET g == origin[p].gen
            n == origin[p].n
            names == TaskNames(g, fs[p].data)
            bodies == Bodies(fs[p].data)
        IN  /\ Len(names) = n
            /\ Len(bodies) = n
            /\ \A i \in 1..n :
                 /\ DigitsToInt(names[i].d) = i
                 /\ RecordThenBody(g, fs[p].data, i)
                 /\ IsEcho(bodies[i].cmd)
                 /\ NumsOf(bodies[i].cmd) = << i, n >>

\* As the code has it: every body prints the index; only the makefile and
\* the taskfile print the count after it.
C9_BodyPrintsIndex ==
    \A p \in Generated :
        LET g == origin[p].gen
            n == origin[p].n
            names == TaskNames(g, fs[p].data)
            bodies == Bodies(fs[p].data)
        IN  /\ Len(names) = n
            /\ Len(bodies) = n
            /\ \A i \in 1..n :
                 /\ DigitsToInt(names[i].d) = i
                 /\ RecordThenBody(g, fs[p].data, i)
                 /\ IsEcho(bodies[i].cmd)
                 /\ NumsOf(bodies[i].cmd) = (IF g \in Padded THEN << i >> ELSE << i, n >>)

C9_Witness ==
    \E p, q \in Generated :
        /\ origin[p].gen = "gen_make"
        /\ origin[p].n >= 2
        /\ NumsOf(Bodies(fs[p].data)[1].cmd) = << 1, origin[p].n >>
        /\ origin[q].gen \in Padded
        /\ origin[q].n >= 2
        /\ NumsOf(Bodies(fs[q].data)[1].cmd) = << 1 >>

(***************************************************************************)
(* C10: a completed run over the partial file a failed run left, whatever  *)
(* its length, leaves the file as the same run leaves a fresh path.        *)
(***************************************************************************)
OverPartial == {"partial", "partial_long"}

C10_PartialFileOverwritten ==
    \A p, q \in Generated :
        (/\ origin[p].over \in OverPartial
         /\ origin[q].over = "absent"
         /\ origin[q].gen = origin[p].gen
         /\ origin[q].n = origin[p].n) => fs[p] = fs[q]

C10_Witness ==
    \E p, q \in Generated :
        /\ origin[p].over = "partial_long"
        /\ origin[q].over = "absent"
        /\ origin[q].gen = origin[p].gen
        /\ origin[q].n = origin[p].n
        /\ fs[p] = fs[q]
====
